---- MODULE Spec2Model ----
(***************************************************************************)
(* LED/switch kernel module, three iterations of the same design:          *)
(*   "mutex"    src/Task 1/led_module.c  worker kthread + mutex            *)
(*   "lockfree" src/unnamed/part_001     worker kthread, no lock           *)
(*   "timer"    src/unnamed/part_000     timer callback + mutex + debounce *)
(* Definitions prefixed M_, L_, T_ model the code of the respective file.  *)
(* Interrupt contexts and task slots are interchangeable, so a delivery    *)
(* takes the lowest idle context and kthread_run the lowest free slot.     *)
(***************************************************************************)
EXTENDS Integers, FiniteSets, Sequences, TLC

\* ---- program constants ----
NUM_LEDS == 4
NUM_SWITCHES == 4

\* ---- bounds of the model ----
\* interrupt contexts that may execute switch_handler at the same time
NumHandlers == 2
\* kthreads that can exist at once (kthread_run fails beyond this)
MaxWorkers == 2
\* width of the tick counter in bits (unsigned long in the code)
JiffiesBits == 3
\* ticks of the clock a run of the debounce filter covers
MaxElapsed == 4
\* debounce windows a run of the timer variant covers
MaxWindows == 2
\* the history counter of tick bodies stops counting here
MaxTicks == 5

\* kernel tick rate: DEBOUNCE_DELAY (200 ms) is HZ / 5 ticks
HZ == 10
DEBOUNCE_DELAY == HZ \div 5
JiffiesMod == 2 ^ JiffiesBits
\* the counter starts shortly before it wraps, as INITIAL_JIFFIES does
InitJiffies == JiffiesMod - DEBOUNCE_DELAY

Leds == 0 .. (NUM_LEDS - 1)
Switches == 0 .. (NUM_SWITCHES - 1)
Handlers == 1 .. NumHandlers
Workers == 1 .. MaxWorkers

VARIABLES
    variant,          \* which of the three source files is running
    leds,             \* gpio output value of each LED line
    mode,             \* led_control.mode / current_mode
    direction,        \* led_control.individual_direction / direction
    lock,             \* mutex owner: 0 free, h handler h, CallbackOwner
    hpc, hsid,        \* per interrupt context: position, switch_id
    htarget,          \* task the handler passed to kthread_stop
    thread,           \* led_control.thread (0 is NULL, else a worker)
    thread_running,   \* led_control.thread_running
    wpc, wi, wstop,   \* per kthread: position, loop index, should_stop
    led_states,       \* led_states[] mirror of the outputs (timer variant)
    current_led,      \* current_led, the sweep position (timer variant)
    timer_pending,    \* led_timer is armed
    cpc,              \* position of a running led_timer_callback
    jiffies,          \* the kernel tick counter, JiffiesBits wide
    last_switch_time, \* last_switch_time[] of the debounce filter
    elapsed,          \* history: ticks of the clock since the start
    last_edge,        \* history: time of the last dispatched edge per input
    ticks,            \* history: tick bodies run since the last dispatched trigger
    last_trigger      \* history: switch_id of the last dispatched trigger

commonVars == <<variant, leds, mode, direction, lock>>
handlerVars == <<hpc, hsid, htarget>>
workerVars == <<thread, thread_running, wpc, wi, wstop>>
timerVars == <<led_states, current_led, timer_pending, cpc>>
clockVars == <<jiffies, last_switch_time, elapsed, last_edge>>
historyVars == <<ticks, last_trigger>>
vars == <<commonVars, handlerVars, workerVars, timerVars, clockVars, historyVars>>

NoMode == -1
AllOff == [i \in Leds |-> 0]
AllOn == [i \in Leds |-> 1]
InitDirection == 0

Alive(w) == wpc[w] # "none"
AliveWorkers == {w \in Workers : Alive(w)}
AllIdle == \A h \in Handlers : hpc[h] = "idle"
IdleContexts == {h \in Handlers : hpc[h] = "idle"}
FirstIdle(h) == h \in IdleContexts /\ \A g \in IdleContexts : h <= g

W_reset_leds_Keep(l) == l

\* reset_leds of the two worker variants: every line low
W_reset_leds(l) == AllOff

\* set_led of the two worker variants: bounds-checked write
W_set_led(l, idx, v) == IF idx >= 0 /\ idx < NUM_LEDS THEN [l EXCEPT ![idx] = v] ELSE l

InitCommon ==
    /\ leds = AllOff
    /\ mode = NoMode
    /\ direction = InitDirection
    /\ lock = 0
    /\ hpc = [h \in Handlers |-> "idle"]
    /\ hsid = [h \in Handlers |-> 0]
    /\ htarget = [h \in Handlers |-> 0]
    /\ thread = 0
    /\ thread_running = FALSE
    /\ wpc = [w \in Workers |-> "none"]
    /\ wi = [w \in Workers |-> 0]
    /\ wstop = [w \in Workers |-> FALSE]
    /\ led_states = [i \in Leds |-> FALSE]
    /\ current_led = 0
    /\ timer_pending = FALSE
    /\ cpc = "idle"
    /\ jiffies = InitJiffies
    /\ last_switch_time = [i \in Switches |-> 0]
    /\ elapsed = 0
    /\ last_edge = [i \in Switches |-> -1]
    /\ ticks = 0
    /\ last_trigger = -1

\* an interrupt is delivered to an idle context: entry of switch_handler
IrqEntry(h, sid, first) ==
    /\ FirstIdle(h)
    /\ hpc' = [hpc EXCEPT ![h] = first]
    /\ hsid' = [hsid EXCEPT ![h] = sid]
    /\ UNCHANGED htarget

\* return IRQ_HANDLED
IrqReturn(h) ==
    /\ hpc' = [hpc EXCEPT ![h] = "idle"]
    /\ hsid' = [hsid EXCEPT ![h] = 0]
    /\ UNCHANGED htarget

\* the handler moves on inside switch_handler
IrqGoto(h, next) ==
    /\ hpc' = [hpc EXCEPT ![h] = next]
    /\ UNCHANGED <<hsid, htarget>>

\* a step of context h that returns from switch_handler
Completes(h) == hpc[h] # "idle" /\ hpc'[h] = "idle"

\* a task slot kthread_run can use: not a live task, not one being waited on
FreeSlots == {w \in Workers : ~Alive(w) /\ \A h \in Handlers : htarget[h] # w}
FirstFree(w) == w \in FreeSlots /\ \A v \in FreeSlots : w <= v

\* kthread_run: a new task is created and woken; it has not run yet
StartWorker(w) ==
    /\ wpc' = [wpc EXCEPT ![w] = "new"]
    /\ wi' = [wi EXCEPT ![w] = 0]
    /\ wstop' = [wstop EXCEPT ![w] = FALSE]

(***************************************************************************)
(* mutex variant: src/Task 1/led_module.c                                  *)
(***************************************************************************)
\* switch_handler up to mutex_lock
M_Irq(h, sid) ==
    /\ variant = "mutex"
    /\ IrqEntry(h, sid, "lock")
    /\ UNCHANGED <<commonVars, workerVars>>
    /\ UNCHANGED <<timerVars, clockVars, historyVars>>

M_LockFree_NoWait(h) == TRUE

\* mutex_lock returns only to a caller that found the mutex free
M_LockFree(h) == lock = 0

M_Exited_NoWait(w) == TRUE

\* kthread_stop returns only after the task has exited
M_Exited(w) == ~Alive(w)

\* case 2 of switch (led_control.mode) with if (switch_id < 3)
M_ManualSelect(m, sid) == m = 2 /\ sid < 3

\* mutex_lock(&led_control.lock); if (led_control.thread && thread_running)
M_Lock(h) ==
    /\ variant = "mutex"
    /\ hpc[h] = "lock"
    /\ M_LockFree(h)
    /\ lock' = h
    /\ IrqGoto(h, IF thread # 0 /\ thread_running THEN "stop" ELSE "dispatch")
    /\ UNCHANGED <<variant, leds, mode, direction, workerVars>>
    /\ UNCHANGED <<timerVars, clockVars, historyVars>>

\* kthread_stop(led_control.thread); led_control.thread = NULL;
\* first the should_stop flag is set, then the caller sleeps until the task
\* has exited, and only then the handle is cleared
M_KthreadStop(h) ==
    /\ variant = "mutex"
    /\ hpc[h] \in {"stop", "wait"}
    /\ IF hpc[h] = "stop"
       THEN /\ htarget' = [htarget EXCEPT ![h] = thread]
            /\ wstop' = [wstop EXCEPT ![thread] = TRUE]
            /\ hpc' = [hpc EXCEPT ![h] = "wait"]
            /\ UNCHANGED thread
       ELSE /\ M_Exited(htarget[h])
            /\ thread' = 0
            /\ htarget' = [htarget EXCEPT ![h] = 0]
            /\ hpc' = [hpc EXCEPT ![h] = "dispatch"]
            /\ UNCHANGED wstop
    /\ UNCHANGED <<commonVars, hsid, thread_running, wpc, wi>>
    /\ UNCHANGED <<timerVars, clockVars, historyVars>>

M_StartFailed_Running ==
    /\ thread' = 0
    /\ thread_running' = TRUE
    /\ UNCHANGED <<wpc, wi, wstop>>

\* if (IS_ERR(led_control.thread)) led_control.thread = NULL
M_StartFailed ==
    /\ thread' = 0
    /\ UNCHANGED <<thread_running, wpc, wi, wstop>>

\* switch (led_control.mode) { ... } of switch_handler, mutex_unlock, return
M_Dispatch(h) ==
    /\ variant = "mutex"
    /\ hpc[h] = "dispatch"
    /\ lock' = 0
    /\ IrqReturn(h)
    /\ UNCHANGED variant
    /\ IF M_ManualSelect(mode, hsid[h])
       THEN /\ leds' = W_set_led(W_reset_leds(leds), hsid[h], 1)
            /\ UNCHANGED <<mode, direction, workerVars>>
       ELSE IF mode = 2 \/ mode = 3
       THEN /\ leds' = W_reset_leds(leds)
            /\ mode' = NoMode
            /\ direction' = 0
            /\ UNCHANGED workerVars
       ELSE IF hsid[h] \in {0, 1}
       THEN /\ mode' = hsid[h]
            /\ UNCHANGED <<leds, direction>>
            /\ \/ \E w \in Workers :
                    /\ FirstFree(w)
                    /\ StartWorker(w)
                    /\ thread' = w
                    /\ thread_running' = TRUE
               \/ M_StartFailed
       ELSE /\ mode' = IF hsid[h] = 3 THEN NoMode ELSE hsid[h]
            /\ leds' = W_reset_leds(leds)
            /\ UNCHANGED <<direction, workerVars>>
    /\ UNCHANGED <<timerVars, clockVars, historyVars>>

\* ---- led_thread_function of the mutex variant ----
\* The task created by kthread_run runs for the first time: a task that was
\* told to stop before that exits without entering led_thread_function.
\* Then while (!kthread_should_stop()); after the loop thread_running = false
\* under the mutex and return 0
M_W_Loop(w) ==
    /\ variant = "mutex"
    /\ wpc[w] \in {"new", "top", "exit"}
    /\ IF wpc[w] = "new"
       THEN /\ wpc' = [wpc EXCEPT ![w] = IF wstop[w] THEN "none" ELSE "top"]
            /\ wstop' = [wstop EXCEPT ![w] = FALSE]
            /\ UNCHANGED thread_running
       ELSE IF wpc[w] = "top"
       THEN /\ wpc' = [wpc EXCEPT ![w] = IF wstop[w] THEN "exit" ELSE "rd_mode"]
            /\ UNCHANGED <<thread_running, wstop>>
       ELSE /\ lock = 0
            /\ thread_running' = FALSE
            /\ wpc' = [wpc EXCEPT ![w] = "none"]
            /\ wstop' = [wstop EXCEPT ![w] = FALSE]
    /\ UNCHANGED <<commonVars, handlerVars, thread, wi>>
    /\ UNCHANGED <<timerVars, clockVars, historyVars>>

\* current_mode = led_control.mode under the mutex, then the case's first writes
M_W_ReadMode(w) ==
    /\ variant = "mutex"
    /\ wpc[w] = "rd_mode"
    /\ lock = 0
    /\ IF mode = 0
       THEN /\ leds' = AllOn
            /\ wpc' = [wpc EXCEPT ![w] = "sleep_on"]
       ELSE IF mode = 1
       THEN /\ leds' = W_reset_leds(leds)
            /\ wpc' = [wpc EXCEPT ![w] = "rd_dir"]
       ELSE /\ wpc' = [wpc EXCEPT ![w] = "idle_sleep"]
            /\ UNCHANGED leds
    /\ UNCHANGED <<variant, mode, direction, lock, handlerVars, thread, thread_running, wi, wstop>>
    /\ UNCHANGED <<timerVars, clockVars, historyVars>>

\* direction = led_control.individual_direction under the mutex
M_W_ReadDir(w) ==
    /\ variant = "mutex"
    /\ wpc[w] = "rd_dir"
    /\ lock = 0
    /\ wpc' = [wpc EXCEPT ![w] = IF direction = 0 THEN "fwd_check" ELSE "rev_check"]
    /\ wi' = [wi EXCEPT ![w] = IF direction = 0 THEN 0 ELSE NUM_LEDS - 1]
    /\ UNCHANGED <<commonVars, handlerVars, thread, thread_running, wstop>>
    /\ UNCHANGED <<timerVars, clockVars, historyVars>>

\* loop condition, mode re-check under the mutex, set_led(i, 1), msleep
M_W_SweepStep(w) ==
    /\ variant = "mutex"
    /\ wpc[w] \in {"fwd_check", "rev_check"}
    /\ IF wi[w] < 0 \/ wi[w] >= NUM_LEDS
       THEN /\ wpc' = [wpc EXCEPT ![w] = "flip"]
            /\ wi' = [wi EXCEPT ![w] = 0]
            /\ UNCHANGED leds
       ELSE /\ lock = 0
            /\ IF mode # 1
               THEN /\ wpc' = [wpc EXCEPT ![w] = "flip"]
                    /\ wi' = [wi EXCEPT ![w] = 0]
                    /\ UNCHANGED leds
               ELSE /\ leds' = W_set_led(leds, wi[w], 1)
                    /\ wpc' = [wpc EXCEPT ![w] = IF wpc[w] = "fwd_check" THEN "fwd_sleep" ELSE "rev_sleep"]
                    /\ UNCHANGED wi
    /\ UNCHANGED <<variant, mode, direction, lock, handlerVars, thread, thread_running, wstop>>
    /\ UNCHANGED <<timerVars, clockVars, historyVars>>

\* msleep(2000) is over: reset_leds(), i++ or i--
M_W_SweepWake(w) ==
    /\ variant = "mutex"
    /\ wpc[w] \in {"fwd_sleep", "rev_sleep"}
    /\ leds' = W_reset_leds(leds)
    /\ wi' = [wi EXCEPT ![w] = IF wpc[w] = "fwd_sleep" THEN wi[w] + 1 ELSE wi[w] - 1]
    /\ wpc' = [wpc EXCEPT ![w] = IF wpc[w] = "fwd_sleep" THEN "fwd_check" ELSE "rev_check"]
    /\ UNCHANGED <<variant, mode, direction, lock, handlerVars, thread, thread_running, wstop>>
    /\ UNCHANGED <<timerVars, clockVars, historyVars>>

\* individual_direction = !individual_direction under the mutex
M_W_Flip(w) ==
    /\ variant = "mutex"
    /\ wpc[w] = "flip"
    /\ lock = 0
    /\ direction' = 1 - direction
    /\ wpc' = [wpc EXCEPT ![w] = "top"]
    /\ UNCHANGED <<variant, leds, mode, lock, handlerVars, thread, thread_running, wi, wstop>>
    /\ UNCHANGED <<timerVars, clockVars, historyVars>>

\* case 0: first msleep is over: reset_leds(), second msleep
M_W_BlinkOff(w) ==
    /\ variant = "mutex"
    /\ wpc[w] = "sleep_on"
    /\ leds' = W_reset_leds(leds)
    /\ wpc' = [wpc EXCEPT ![w] = "sleep_off"]
    /\ UNCHANGED <<variant, mode, direction, lock, handlerVars, thread, thread_running, wi, wstop>>
    /\ UNCHANGED <<timerVars, clockVars, historyVars>>

\* a trailing msleep (case 0 second sleep, default msleep(100)) is over
M_W_Wake(w) ==
    /\ variant = "mutex"
    /\ wpc[w] \in {"sleep_off", "idle_sleep"}
    /\ wpc' = [wpc EXCEPT ![w] = "top"]
    /\ UNCHANGED <<commonVars, handlerVars, thread, thread_running, wi, wstop>>
    /\ UNCHANGED <<timerVars, clockVars, historyVars>>

M_Worker(w) ==
    \/ M_W_Loop(w) \/ M_W_ReadMode(w) \/ M_W_ReadDir(w) \/ M_W_SweepStep(w)
    \/ M_W_SweepWake(w) \/ M_W_Flip(w) \/ M_W_BlinkOff(w) \/ M_W_Wake(w)

M_HandlerStep(h) == M_Lock(h) \/ M_KthreadStop(h) \/ M_Dispatch(h)

InitMutex == variant = "mutex" /\ InitCommon

NextMutex ==
    \/ \E h \in Handlers, sid \in Switches : M_Irq(h, sid)
    \/ \E h \in Handlers : M_HandlerStep(h)
    \/ \E w \in Workers : M_Worker(w)

SpecMutex == InitMutex /\ [][NextMutex]_vars

(***************************************************************************)
(* lock-free variant: src/unnamed/part_001                                 *)
(***************************************************************************)
L_ManualSelect_OffByTwo(m, sid) == m = 2 /\ sid < 1

\* case 2 of switch (led_control.mode) with if (switch_id < 3)
L_ManualSelect(m, sid) == m = 2 /\ sid < 3

\* entry of switch_handler: if (led_control.thread && led_control.thread_running)
L_Irq(h, sid) ==
    /\ variant = "lockfree"
    /\ IrqEntry(h, sid, IF thread # 0 /\ thread_running THEN "stop" ELSE "dispatch")
    /\ UNCHANGED <<commonVars, workerVars>>
    /\ UNCHANGED <<timerVars, clockVars, historyVars>>

\* kthread_stop(led_control.thread); led_control.thread = NULL;
\* The handle is read again for the call.  A NULL handle is a NULL
\* dereference; a handle whose task has exited is a use of freed memory,
\* which either goes unnoticed (the call returns) or takes the context down.
L_KthreadStop(h) ==
    /\ variant = "lockfree"
    /\ hpc[h] \in {"stop", "wait"}
    /\ IF hpc[h] = "stop"
       THEN IF thread = 0
            THEN /\ hpc' = [hpc EXCEPT ![h] = "oops"]
                 /\ UNCHANGED <<htarget, wstop, thread>>
            ELSE IF ~Alive(thread)
            THEN /\ \/ /\ hpc' = [hpc EXCEPT ![h] = "dispatch"]
                       /\ thread' = 0
                    \/ /\ hpc' = [hpc EXCEPT ![h] = "oops"]
                       /\ UNCHANGED thread
                 /\ UNCHANGED <<htarget, wstop>>
            ELSE /\ htarget' = [htarget EXCEPT ![h] = thread]
                 /\ wstop' = [wstop EXCEPT ![thread] = TRUE]
                 /\ hpc' = [hpc EXCEPT ![h] = "wait"]
                 /\ UNCHANGED thread
       ELSE /\ ~Alive(htarget[h])
            /\ thread' = 0
            /\ htarget' = [htarget EXCEPT ![h] = 0]
            /\ hpc' = [hpc EXCEPT ![h] = "dispatch"]
            /\ UNCHANGED wstop
    /\ UNCHANGED <<commonVars, hsid, thread_running, wpc, wi>>
    /\ UNCHANGED <<timerVars, clockVars, historyVars>>

\* switch (led_control.mode): case 2, case 3, and the first statement of default
L_Dispatch(h) ==
    /\ variant = "lockfree"
    /\ hpc[h] = "dispatch"
    /\ UNCHANGED <<variant, lock, workerVars>>
    /\ IF L_ManualSelect(mode, hsid[h])
       THEN /\ leds' = W_set_led(W_reset_leds(leds), hsid[h], 1)
            /\ IrqReturn(h)
            /\ UNCHANGED <<mode, direction>>
       ELSE IF mode = 2 \/ mode = 3
       THEN /\ leds' = W_reset_leds(leds)
            /\ mode' = NoMode
            /\ direction' = 0
            /\ IrqReturn(h)
       ELSE /\ mode' = hsid[h]
            /\ IrqGoto(h, "select")
            /\ UNCHANGED <<leds, direction>>
    /\ UNCHANGED <<timerVars, clockVars, historyVars>>

\* the inner switch (switch_id) of the default case, up to kthread_run
L_Select(h) ==
    /\ variant = "lockfree"
    /\ hpc[h] = "select"
    /\ UNCHANGED <<variant, direction, lock, thread_running>>
    /\ IF hsid[h] \in {0, 1}
       THEN /\ UNCHANGED <<leds, mode>>
            /\ \/ \E w \in Workers :
                    /\ FirstFree(w)
                    /\ StartWorker(w)
                    /\ thread' = w
                    /\ IrqGoto(h, "setrun")
               \/ /\ thread' = 0
                  /\ IrqReturn(h)
                  /\ UNCHANGED <<wpc, wi, wstop>>
       ELSE /\ leds' = W_reset_leds(leds)
            /\ mode' = IF hsid[h] = 3 THEN NoMode ELSE mode
            /\ IrqReturn(h)
            /\ UNCHANGED <<thread, wpc, wi, wstop>>
    /\ UNCHANGED <<timerVars, clockVars, historyVars>>

L_SetRunning_Forgets(h) ==
    /\ variant = "lockfree"
    /\ hpc[h] = "setrun"
    /\ IrqReturn(h)
    /\ UNCHANGED <<commonVars, workerVars, timerVars, clockVars, historyVars>>

\* led_control.thread_running = true; return
L_SetRunning(h) ==
    /\ variant = "lockfree"
    /\ hpc[h] = "setrun"
    /\ thread_running' = TRUE
    /\ IrqReturn(h)
    /\ UNCHANGED <<commonVars, thread, wpc, wi, wstop>>
    /\ UNCHANGED <<timerVars, clockVars, historyVars>>

\* ---- led_thread_function of the lock-free variant, one step per stretch
\* ---- of code between two sleeps
\* The task created by kthread_run runs for the first time: a task that was
\* told to stop before that exits without entering led_thread_function.
\* top of the while loop: the stop check, then switch (led_control.mode) up
\* to the first msleep of the case; with the flag set, thread_running = false
L_W_Loop(w) ==
    /\ variant = "lockfree"
    /\ wpc[w] \in {"new", "top", "sleep_off", "idle_sleep"}
    /\ UNCHANGED <<variant, mode, direction, lock, handlerVars, thread>>
    /\ IF wpc[w] = "new"
       THEN /\ wpc' = [wpc EXCEPT ![w] = IF wstop[w] THEN "none" ELSE "top"]
            /\ wstop' = [wstop EXCEPT ![w] = FALSE]
            /\ UNCHANGED <<leds, wi, thread_running>>
       ELSE IF wstop[w]
       THEN /\ thread_running' = FALSE
            /\ wpc' = [wpc EXCEPT ![w] = "none"]
            /\ wstop' = [wstop EXCEPT ![w] = FALSE]
            /\ UNCHANGED <<leds, wi>>
       ELSE /\ UNCHANGED <<thread_running, wstop>>
            /\ IF mode = 0
               THEN /\ leds' = AllOn
                    /\ wpc' = [wpc EXCEPT ![w] = "sleep_on"]
                    /\ UNCHANGED wi
               ELSE IF mode = 1
               THEN /\ leds' = W_set_led(W_reset_leds(leds), IF direction = 0 THEN 0 ELSE NUM_LEDS - 1, 1)
                    /\ wi' = [wi EXCEPT ![w] = IF direction = 0 THEN 0 ELSE NUM_LEDS - 1]
                    /\ wpc' = [wpc EXCEPT ![w] = IF direction = 0 THEN "fwd_sleep" ELSE "rev_sleep"]
               ELSE /\ wpc' = [wpc EXCEPT ![w] = "idle_sleep"]
                    /\ UNCHANGED <<leds, wi>>
    /\ UNCHANGED <<timerVars, clockVars, historyVars>>

\* case 0: the first msleep is over: reset_leds(), second msleep
L_W_BlinkOff(w) ==
    /\ variant = "lockfree"
    /\ wpc[w] = "sleep_on"
    /\ leds' = W_reset_leds(leds)
    /\ wpc' = [wpc EXCEPT ![w] = "sleep_off"]
    /\ UNCHANGED <<variant, mode, direction, lock, handlerVars, thread, thread_running, wi, wstop>>
    /\ UNCHANGED <<timerVars, clockVars, historyVars>>

L_NextIndex(w) == IF wpc[w] = "fwd_sleep" THEN wi[w] + 1 ELSE wi[w] - 1

\* case 1: the msleep of one output is over: reset_leds(), the next index,
\* the mode re-check and set_led, or the end of the pass and the flip of
\* individual_direction
L_W_SweepWake(w) ==
    /\ variant = "lockfree"
    /\ wpc[w] \in {"fwd_sleep", "rev_sleep"}
    /\ UNCHANGED <<variant, mode, lock, handlerVars, thread, thread_running, wstop>>
    /\ IF L_NextIndex(w) >= 0 /\ L_NextIndex(w) < NUM_LEDS /\ mode = 1
       THEN /\ leds' = W_set_led(W_reset_leds(leds), L_NextIndex(w), 1)
            /\ wi' = [wi EXCEPT ![w] = L_NextIndex(w)]
            /\ UNCHANGED <<wpc, direction>>
       ELSE /\ leds' = W_reset_leds(leds)
            /\ direction' = 1 - direction
            /\ wi' = [wi EXCEPT ![w] = 0]
            /\ wpc' = [wpc EXCEPT ![w] = "top"]
    /\ UNCHANGED <<timerVars, clockVars, historyVars>>

L_Worker(w) == L_W_Loop(w) \/ L_W_BlinkOff(w) \/ L_W_SweepWake(w)

L_HandlerStep(h) ==
    \/ L_KthreadStop(h) \/ L_Dispatch(h) \/ L_Select(h) \/ L_SetRunning(h)

InitLockFree == variant = "lockfree" /\ InitCommon

NextLockFree ==
    \/ \E h \in Handlers, sid \in Switches : L_Irq(h, sid)
    \/ \E h \in Handlers : L_HandlerStep(h)
    \/ \E w \in Workers : L_Worker(w)

SpecLockFree == InitLockFree /\ [][NextLockFree]_vars

(***************************************************************************)
(* timer variant: src/unnamed/part_000                                     *)
(***************************************************************************)
AllFalse == [i \in Leds |-> FALSE]

T_reset_leds_ModeOnly(st) == [st EXCEPT !.mode = NoMode]

\* reset_leds: every line low, led_states cleared, and current_mode = -1
T_reset_leds(st) == [st EXCEPT !.leds = AllOff, !.led_states = AllFalse, !.mode = NoMode]

T_set_led_NoMirror(st, idx, v) ==
    IF idx >= 0 /\ idx < NUM_LEDS THEN [st EXCEPT !.leds[idx] = v] ELSE st

\* set_led: bounds-checked write of the line and of led_states
T_set_led(st, idx, v) ==
    IF idx >= 0 /\ idx < NUM_LEDS
    THEN [st EXCEPT !.leds[idx] = v, !.led_states[idx] = (v # 0)]
    ELSE st

\* the outputs and the mode as one value, for reset_leds and set_led
T_State == [leds |-> leds, led_states |-> led_states, mode |-> mode]

T_Commit(st) ==
    /\ leds' = st.leds
    /\ led_states' = st.led_states
    /\ mode' = st.mode

RECURSIVE T_set_from(_, _)
\* for (i = 0; i < NUM_LEDS; i++) set_led(i, 1), from index i on
T_set_from(st, i) == IF i >= NUM_LEDS THEN st ELSE T_set_from(T_set_led(st, i, 1), i + 1)

T_Bounce_Signed(current_time, last) == current_time - last < DEBOUNCE_DELAY

\* current_time - last_switch_time[switch_id] < DEBOUNCE_DELAY, unsigned long
T_Bounce(current_time, last) == (current_time - last) % JiffiesMod < DEBOUNCE_DELAY

\* jiffies advances by d ticks, within the limit of the run
T_Elapse(d, limit) ==
    /\ variant = "timer"
    /\ elapsed + d <= limit
    /\ elapsed' = elapsed + d
    /\ jiffies' = (jiffies + d) % JiffiesMod
    /\ UNCHANGED <<commonVars, handlerVars, workerVars, timerVars, last_switch_time, last_edge, historyVars>>

\* one tick of the clock
T_Jiffy == T_Elapse(1, MaxElapsed)

\* a stretch of one debounce window goes by
T_Window == T_Elapse(DEBOUNCE_DELAY, DEBOUNCE_DELAY * MaxWindows)

\* entry of switch_handler: the debounce filter.  The handler bodies are
\* serialized by mode_lock and each input has its own debounce entry, so
\* deliveries are taken one at a time.
T_Irq(h, sid) ==
    /\ variant = "timer"
    /\ AllIdle
    /\ IF T_Bounce(jiffies, last_switch_time[sid])
       THEN /\ IrqEntry(h, sid, "drop")
            /\ UNCHANGED <<last_switch_time, last_edge>>
       ELSE /\ IrqEntry(h, sid, "lock")
            /\ last_switch_time' = [last_switch_time EXCEPT ![sid] = jiffies]
            /\ last_edge' = [last_edge EXCEPT ![sid] = elapsed]
    /\ UNCHANGED <<commonVars, workerVars, timerVars, jiffies, elapsed, historyVars>>

\* return IRQ_HANDLED of a suppressed edge
T_Drop(h) ==
    /\ variant = "timer"
    /\ hpc[h] = "drop"
    /\ IrqReturn(h)
    /\ UNCHANGED <<commonVars, workerVars, timerVars, clockVars, historyVars>>

T_StartIndex_Swapped(sid) == IF sid = 0 THEN 0 ELSE -1

\* current_led = (switch_id == 1) ? 0 : -1
T_StartIndex(sid) == IF sid = 1 THEN 0 ELSE -1

\* mutex_lock(&mode_lock); switch (switch_id) { ... }; mutex_unlock; return
T_Handle(h) ==
    /\ variant = "timer"
    /\ hpc[h] = "lock"
    /\ lock = 0
    /\ IrqReturn(h)
    /\ ticks' = 0
    /\ last_trigger' = hsid[h]
    /\ UNCHANGED <<variant, direction, lock, workerVars, cpc, clockVars>>
    /\ IF hsid[h] \in {0, 1}
       THEN /\ mode' = hsid[h]
            /\ current_led' = T_StartIndex(hsid[h])
            /\ timer_pending' = TRUE
            /\ UNCHANGED <<leds, led_states>>
       ELSE IF hsid[h] = 2
       THEN /\ T_Commit(T_set_led([T_State EXCEPT !.mode = 2], 2, IF led_states[2] THEN 0 ELSE 1))
            /\ UNCHANGED <<current_led, timer_pending>>
       ELSE /\ T_Commit(T_reset_leds(T_State))
            /\ timer_pending' = FALSE
            /\ UNCHANGED current_led

\* led_timer expires: led_timer_callback starts, if (current_mode == -1) return
T_Fire ==
    /\ variant = "timer"
    /\ timer_pending
    /\ cpc = "idle"
    /\ timer_pending' = FALSE
    /\ cpc' = IF mode = NoMode THEN "idle" ELSE "lock"
    /\ UNCHANGED <<commonVars, handlerVars, workerVars, led_states, current_led, clockVars, historyVars>>

\* the next sweep position of the tick body
T_Advance(cur, dir) == IF dir = 0 THEN (cur + 1) % NUM_LEDS ELSE (cur - 1 + NUM_LEDS) % NUM_LEDS

\* mutex_lock(&mode_lock); switch (current_mode) { ... }; mutex_unlock
T_Tick ==
    /\ variant = "timer"
    /\ cpc = "lock"
    /\ lock = 0
    /\ cpc' = "rearm"
    /\ ticks' = IF ticks < MaxTicks THEN ticks + 1 ELSE ticks
    /\ UNCHANGED <<variant, direction, lock, handlerVars, workerVars, timer_pending, clockVars, last_trigger>>
    /\ IF mode = 0
       THEN /\ T_Commit(IF ~led_states[0] THEN T_set_from(T_State, 0) ELSE T_reset_leds(T_State))
            /\ UNCHANGED current_led
       ELSE IF mode = 1
       THEN /\ T_Commit(T_set_led(T_reset_leds(T_State), current_led, 1))
            /\ current_led' = T_Advance(current_led, direction)
       ELSE UNCHANGED <<leds, led_states, mode, current_led>>

\* if (current_mode != -1) mod_timer(&led_timer, jiffies + HZ * 2): the read,
\* then the arming
T_Rearm ==
    /\ variant = "timer"
    /\ cpc \in {"rearm", "arm"}
    /\ IF cpc = "rearm"
       THEN /\ cpc' = IF mode # NoMode THEN "arm" ELSE "idle"
            /\ UNCHANGED timer_pending
       ELSE /\ timer_pending' = TRUE
            /\ cpc' = "idle"
    /\ UNCHANGED <<commonVars, handlerVars, workerVars, led_states, current_led, clockVars, historyVars>>

T_Callback == T_Fire \/ T_Tick \/ T_Rearm

T_HandlerStep(h) == T_Drop(h) \/ T_Handle(h)

InitTimer == variant = "timer" /\ InitCommon

\* the timer variant with its callback; the clock moves in debounce windows
\* and the expiry of led_timer is not tied to it
NextTimer ==
    \/ T_Window
    \/ \E h \in Handlers, sid \in Switches : T_Irq(h, sid)
    \/ \E h \in Handlers : T_HandlerStep(h)
    \/ T_Callback

SpecTimer == InitTimer /\ [][NextTimer]_vars

\* the debounce filter tick by tick, over a stretch shorter than the
\* HZ * 2 ticks led_timer needs to expire
NextDebounce ==
    \/ T_Jiffy
    \/ \E h \in Handlers, sid \in Switches : T_Irq(h, sid)
    \/ \E h \in Handlers : T_HandlerStep(h)

SpecDebounce == InitTimer /\ [][NextDebounce]_vars

(***************************************************************************)
(* specifications over several variants                                    *)
(***************************************************************************)
\* the lock-free variant with deliveries that do not overlap
L_IrqSeq(h, sid) == AllIdle /\ L_Irq(h, sid)

NextLockFreeSeq ==
    \/ \E h \in Handlers, sid \in Switches : L_IrqSeq(h, sid)
    \/ \E h \in Handlers : L_HandlerStep(h)
    \/ \E w \in Workers : L_Worker(w)

SpecLockFreeSeq == InitLockFree /\ [][NextLockFreeSeq]_vars

\* both worker-task variants
SpecWorkers == (InitMutex \/ InitLockFree) /\ [][NextMutex \/ NextLockFreeSeq]_vars

\* the two variants that take a mutex
SpecLocked == (InitMutex \/ InitTimer) /\ [][NextMutex \/ NextTimer]_vars

\* the mutex variant with every task and handler scheduled fairly
FairMutex ==
    /\ \A h \in Handlers : WF_vars(M_HandlerStep(h))
    /\ \A w \in Workers : WF_vars(M_Worker(w))

FairSpecMutex == SpecMutex /\ FairMutex

(***************************************************************************)
(* claims                                                                  *)
(***************************************************************************)
OnlyLed(i) == [j \in Leds |-> IF j = i THEN 1 ELSE 0]
\* context h is inside the stop / mutate / start sequence of switch_handler
InSequence(h) == hpc[h] \in {"stop", "wait", "dispatch"}

\* C1: in the mutex variant every delivery whose handler asks a running
\* worker to stop eventually returns (the worker acknowledges the stop, the
\* handler mutates Mode and releases the lock), under fair scheduling.
C1_StopAcknowledged ==
    \A h \in Handlers : (variant = "mutex" /\ hpc[h] = "wait") ~> (hpc[h] = "idle")

\* C2: in the lock-free variant at most one led_thread_function worker is
\* alive at any time, overlapping deliveries included.
C2_OneWorker == variant = "lockfree" => Cardinality(AliveWorkers) <= 1

\* C3: in the mutex variant a handler is inside its stop / mutate / start
\* sequence only while it owns the lock, so the sequences of two overlapping
\* deliveries never interleave: the second starts after the first is done.
C3_Serialized ==
    variant = "mutex" =>
        /\ \A h \in Handlers : InSequence(h) => lock = h
        /\ \A h1, h2 \in Handlers : InSequence(h1) /\ InSequence(h2) => h1 = h2

\* a second delivery waits for the mutex while the first is in its sequence
C3_Witness ==
    /\ variant = "mutex"
    /\ \E h1, h2 \in Handlers : InSequence(h1) /\ hpc[h2] = "lock" /\ hsid[h1] # hsid[h2]

\* C4: in the mutex and the timer variant every dispatched delivery of
\* switch_id = 3 completes with every output off and Mode = Idle, whatever
\* the state before (so repeating it gives the same state), and from Idle
\* with all outputs off no step other than a dispatched trigger changes an
\* output or the mode (a tick in flight changes nothing).
C4_Reset ==
    [][/\ \A h \in Handlers :
            Completes(h) /\ hsid[h] = 3 /\ hpc[h] # "drop" =>
                leds' = AllOff /\ mode' = NoMode
       /\ (mode = NoMode /\ leds = AllOff /\ \A h \in Handlers : ~Completes(h) \/ hpc[h] = "drop") =>
                leds' = AllOff /\ mode' = NoMode]_vars

\* Reset has completed in the timer variant while a tick was in flight
C4_Witness ==
    /\ variant = "timer"
    /\ last_trigger = 3
    /\ AllIdle
    /\ cpc = "lock"
    /\ mode = NoMode /\ leds = AllOff

AnimatorStarted == thread' = 0 \/ (thread' \in Workers /\ wpc'[thread'] # "none" /\ thread_running')

\* C6 as stated: in the worker variants a completed delivery of switch_id 0
\* or 1 leaves Mode = switch_id with an animator started, from every Mode.
C6_ModeIndependent ==
    [][\A h \in Handlers :
          Completes(h) /\ hsid[h] \in {0, 1} => mode' = hsid[h] /\ AnimatorStarted]_vars

\* C6 amended: from every Mode but Manual a completed delivery of switch_id 0
\* or 1 leaves Mode = switch_id with an animator started; from Manual it
\* leaves Mode = Manual, output switch_id the only one on, and starts no
\* animator (deliveries of the lock-free variant not overlapping).
C6_ModeDependent ==
    [][\A h \in Handlers :
          Completes(h) /\ hsid[h] \in {0, 1} =>
              IF hpc[h] = "dispatch" /\ mode = 2
              THEN mode' = 2 /\ leds' = OnlyLed(hsid[h]) /\ UNCHANGED workerVars
              ELSE mode' = hsid[h] /\ AnimatorStarted]_vars

\* switch_id 0 has been delivered after a sweep pass: AllBlink with its worker
C6_Witness ==
    /\ variant = "lockfree"
    /\ AllIdle
    /\ mode = 0 /\ direction = 1
    /\ thread # 0 /\ Alive(thread) /\ thread_running

\* C7: in the timer variant, after a dispatched switch_id = 0 and until the
\* next dispatched trigger, Mode stays AllBlink and a further tick is always
\* on its way (the bank keeps alternating).
C7_BlinkContinues ==
    (variant = "timer" /\ last_trigger = 0 /\ AllIdle) =>
        mode = 0 /\ (timer_pending \/ cpc # "idle")

\* C8: in the timer variant, after a dispatched switch_id = 1 and until the
\* next dispatched trigger, Mode stays Sweep, the first N ticks all occur, and
\* after k ticks output (k - 1) mod N is the only one on and current_led is
\* k mod N (back at the start after N ticks).
C8_SweepRoundTrip ==
    (variant = "timer" /\ last_trigger = 1 /\ AllIdle) =>
        /\ mode = 1
        /\ ticks < NUM_LEDS => (timer_pending \/ cpc # "idle")
        /\ cpc \in {"idle", "rearm", "arm"} =>
              /\ current_led = ticks % NUM_LEDS
              /\ ticks >= 1 => leds = OnlyLed((ticks - 1) % NUM_LEDS)

\* C9: in the timer variant a dispatched switch_id = 1 that follows a
\* dispatched switch_id = 1 enters Sweep with the opposite direction and the
\* start index of that direction (0 forward, N - 1 reverse).
C9_DirectionToggles ==
    [][\A h \in Handlers :
          (variant = "timer" /\ hpc[h] = "lock" /\ Completes(h)
              /\ hsid[h] = 1 /\ last_trigger = 1) =>
                /\ direction' # direction
                /\ current_led' = IF direction' = 0 THEN 0 ELSE NUM_LEDS - 1]_vars

\* C10: debounce in the timer variant.  An edge on input i, a dispatched edge
\* on i before it, is suppressed exactly when fewer than DEBOUNCE_DELAY ticks
\* (200 ms) lie between the two, whatever the other inputs' clocks hold; a
\* suppressed edge changes neither the clock nor anything else, a dispatched
\* one records the time, and the filter itself touches no mode state.
C10_Debounce ==
    [][\A h \in Handlers :
          /\ (variant = "timer" /\ hpc[h] = "idle" /\ hpc'[h] # "idle") =>
                /\ last_edge[hsid'[h]] >= 0 =>
                      (hpc'[h] = "drop" <=> elapsed - last_edge[hsid'[h]] < DEBOUNCE_DELAY)
                /\ hpc'[h] = "drop" => last_switch_time' = last_switch_time
                /\ hpc'[h] # "drop" =>
                      last_switch_time' = [last_switch_time EXCEPT ![hsid'[h]] = jiffies]
                /\ UNCHANGED <<leds, mode, direction, timerVars>>
          /\ (variant = "timer" /\ hpc[h] = "drop" /\ Completes(h)) =>
                UNCHANGED <<leds, mode, direction, timerVars, clockVars>>]_vars

\* a second edge is suppressed across the wrap of the tick counter
C10_Witness ==
    /\ variant = "timer"
    /\ \E h \in Handlers :
          /\ hpc[h] = "drop"
          /\ last_edge[hsid[h]] >= 0
          /\ jiffies < last_switch_time[hsid[h]]

\* a step of the tick body of led_timer_callback
TickBody == variant = "timer" /\ cpc = "lock" /\ cpc' = "rearm"
\* a step in which context h completes a dispatched trigger of the timer variant
Dispatched(h) == variant = "timer" /\ hpc[h] = "lock" /\ Completes(h)

\* C11: in the timer variant, whenever Mode is Manual or Idle and no handler
\* is executing, the timer is not armed and no tick is about to arm it.
C11_NoAnimator ==
    (variant = "timer" /\ AllIdle /\ mode \in {2, NoMode}) =>
        ~timer_pending /\ cpc # "arm"

\* C12: in the timer variant a dispatched switch_id = 2 flips output 2
\* relative to led_states[2], leaves outputs 0, 1 and 3 as they were and
\* sets Mode = Manual; while Mode is Manual no step other than a dispatched
\* trigger changes an output.
C12_ManualToggle ==
    [][/\ \A h \in Handlers :
            Dispatched(h) /\ hsid[h] = 2 =>
                /\ leds' = [leds EXCEPT ![2] = IF led_states[2] THEN 0 ELSE 1]
                /\ leds'[2] = 1 - leds[2]
                /\ mode' = 2
       /\ (variant = "timer" /\ mode = 2 /\ \A h \in Handlers : ~Dispatched(h)) =>
                leds' = leds /\ mode' = 2]_vars

\* a tick has run in Manual after a mid-blink toggle that turned output 2 off
C12_Witness ==
    /\ variant = "timer"
    /\ AllIdle
    /\ mode = 2 /\ last_trigger = 2
    /\ ticks >= 1
    /\ leds = [i \in Leds |-> IF i = 2 THEN 0 ELSE 1]

\* a delivery of switch_id 0 or 1 of the mutex variant whose kthread_run fails
StartFails(h) ==
    /\ variant = "mutex"
    /\ hpc[h] = "dispatch" /\ Completes(h)
    /\ hsid[h] \in {0, 1} /\ mode \notin {2, 3}
    /\ thread' = 0
\* kthread_stop is only ever called on a task that exists
StopsOnlyLive == \A h \in Handlers : hpc'[h] = "stop" => thread # 0 /\ Alive(thread)

\* C13 as stated: in the mutex variant a delivery of switch_id 0 or 1 whose
\* worker creation fails completes with Mode = switch_id, thread = NULL,
\* thread_running false and no worker alive, and no delivery calls
\* kthread_stop without a worker.
C13_StartFailureClean ==
    [][/\ \A h \in Handlers :
            StartFails(h) =>
                /\ mode' = hsid[h] /\ thread' = 0
                /\ ~thread_running'
                /\ \A w \in Workers : wpc'[w] = "none"
       /\ variant = "mutex" => StopsOnlyLive]_vars

\* C13 amended: the same, but thread_running keeps the value it had (true
\* when the worker before was stopped before it ever ran).
C13_StartFailure ==
    [][/\ \A h \in Handlers :
            StartFails(h) =>
                /\ mode' = hsid[h] /\ thread' = 0
                /\ thread_running' = thread_running
                /\ \A w \in Workers : wpc'[w] = "none"
       /\ variant = "mutex" => StopsOnlyLive]_vars

\* after a failed start a delivery of switch_id 0 or 1 is about to try again
C13_Witness ==
    /\ variant = "mutex"
    /\ mode \in {0, 1} /\ thread = 0 /\ ~thread_running /\ AliveWorkers = {}
    /\ \E h \in Handlers : hpc[h] = "dispatch" /\ hsid[h] \in {0, 1}

\* C14: in the timer variant a tick that had fired before a trigger's handler
\* ran (the handler has armed the timer again while the callback is still on
\* its way to the lock) does not run its body against the new Mode and
\* position: it changes no output, Mode or position.
C14_NoStaleTick ==
    [][(TickBody /\ timer_pending) =>
          UNCHANGED <<leds, led_states, mode, current_led>>]_vars

\* C15: in the lock-free variant, once kthread_stop has asked a worker to
\* stop, the next thing that worker does is terminate: it starts no further
\* sleep period and lights no further output.
C15_PromptStop ==
    [][\A w \in Workers :
          (variant = "lockfree" /\ wstop[w] /\ wpc[w] # "none"
              /\ (wpc'[w] # wpc[w] \/ wi'[w] # wi[w])) =>
                wpc'[w] = "none"]_vars

\* C16: in the timer variant no tick of led_timer_callback changes
\* current_mode, direction or (outside Sweep) current_led.
C16_TickKeepsMode ==
    [][TickBody => mode' = mode /\ direction' = direction
                    /\ (mode # 1 => current_led' = current_led)]_vars

\* C17: in the timer variant current_led is a valid index whenever Mode is
\* Sweep, and a sweep step from a valid index gives a valid index in both
\* directions.
C17_ValidPosition ==
    /\ (variant = "timer" /\ mode = 1) => current_led \in 0..(NUM_LEDS - 1)
    /\ \A c \in 0..(NUM_LEDS - 1), d \in {0, 1} : T_Advance(c, d) \in 0..(NUM_LEDS - 1)

\* Sweep entered from AllBlink mid-blink, its first tick about to run
C17_Witness ==
    /\ variant = "timer"
    /\ mode = 1 /\ last_trigger = 1
    /\ cpc = "lock"
    /\ leds = AllOn

\* a step of worker w that ends a sweep pass
PassEnds(w) == wpc[w] \in {"fwd_sleep", "rev_sleep"} /\ wpc'[w] = "top"
\* a step of worker w that starts a sweep pass
PassStarts(w) == wpc[w] \notin {"fwd_sleep", "rev_sleep"} /\ wpc'[w] \in {"fwd_sleep", "rev_sleep"}

\* C18: in the lock-free variant a sweep pass starts at index 0 going forward
\* when individual_direction is 0 and at N - 1 going backward when it is 1,
\* moves one index per step without the direction changing, ends only after
\* its last index, and the direction flips exactly then; a handler step
\* changes the direction only to 0 and only for switch_id = 3.
C18_OncePerPass ==
    [][/\ variant = "lockfree" =>
            \A w \in Workers :
                /\ PassStarts(w) =>
                      /\ direction' = direction
                      /\ wpc'[w] = (IF direction = 0 THEN "fwd_sleep" ELSE "rev_sleep")
                      /\ wi'[w] = (IF direction = 0 THEN 0 ELSE NUM_LEDS - 1)
                /\ PassEnds(w) =>
                      /\ wi[w] = (IF wpc[w] = "fwd_sleep" THEN NUM_LEDS - 1 ELSE 0)
                      /\ direction' = 1 - direction
                /\ wpc[w] \in {"fwd_sleep", "rev_sleep"} =>
                      direction = (IF wpc[w] = "fwd_sleep" THEN 0 ELSE 1)
       /\ (variant = "lockfree" /\ direction' # direction) =>
            \/ \E w \in Workers : PassEnds(w)
            \/ \E h \in Handlers : hsid[h] = 3 /\ Completes(h) /\ direction' = 0]_vars

\* C19 as stated: in the lock-free variant with deliveries that do not
\* overlap, whenever no handler is executing, thread is non-NULL iff
\* thread_running iff a worker is alive, a worker is alive only in AllBlink
\* or Sweep, and kthread_stop is only called on a live worker.
C19_HandleFlagWorker ==
    variant = "lockfree" =>
        /\ AllIdle =>
              /\ (thread # 0) <=> thread_running
              /\ thread_running <=> (AliveWorkers # {})
              /\ AliveWorkers # {} => mode \in {0, 1}
        /\ \A h \in Handlers :
              /\ hpc[h] = "stop" => thread # 0 /\ Alive(thread)
              /\ hpc[h] # "oops"

\* C19 amended: thread is non-NULL iff a worker is alive, and then
\* thread_running is true; thread_running may stay true without a worker.
C19_HandleWorker ==
    variant = "lockfree" =>
        /\ AllIdle =>
              /\ (thread # 0) <=> (AliveWorkers # {})
              /\ thread # 0 => thread_running /\ AliveWorkers = {thread}
              /\ AliveWorkers # {} => mode \in {0, 1}
        /\ \A h \in Handlers :
              /\ hpc[h] = "stop" => thread # 0 /\ Alive(thread)
              /\ hpc[h] # "oops"

\* a handler is about to stop a worker that is in a sweep pass
C19_Witness ==
    /\ variant = "lockfree"
    /\ \E h \in Handlers :
          hpc[h] = "stop" /\ thread # 0 /\ wpc[thread] \in {"fwd_sleep", "rev_sleep"}

\* C20: in the lock-free variant with deliveries that do not overlap, at most
\* one output is on while Mode = Sweep, and when kthread_stop returns to the
\* handler all outputs are off.
C20_SweepOutputs ==
    [][variant = "lockfree" =>
          /\ mode' = 1 => Cardinality({i \in Leds : leds'[i] = 1}) <= 1
          /\ \A h \in Handlers :
                (hpc[h] = "wait" /\ hpc'[h] = "dispatch") => leds = AllOff /\ leds' = AllOff]_vars

\* the handler waits in kthread_stop and the AllBlink worker has just exited
C20_Witness ==
    /\ variant = "lockfree"
    /\ mode = 0 /\ ~thread_running /\ leds = AllOff
    /\ \E h \in Handlers : hpc[h] = "wait" /\ ~Alive(htarget[h])
====
